---------------------------- MODULE Spec2Model ----------------------------
(***************************************************************************)
(* Model of the keyword research tool:                                     *)
(*   src/single_keyword_research.py           KeywordResearcher            *)
(*   src/batch_keyword_research_optimized.py  OptimizedBatchKeywordResearcher *)
(*                                                                         *)
(* The specifications share the module's variables:                        *)
(*   SpecOverlap   calculate_url_overlap applied to bounded URL lists      *)
(*   SpecNormalize normalize_url applied to bounded URLs, twice            *)
(*   SpecKeys      get_cache_key applied to two requests                   *)
(*   SpecRank      the dedup and the sort of step 2 applied to bounded     *)
(*                 lists of harvested records                              *)
(*   SpecPipeline  one run of research_keyword, one step per external call *)
(*   SpecScan      step 3 of research_keyword over a long candidate list   *)
(*   Spec          process_keywords_parallel: worker pool, cache, collector*)
(*   SpecLive      the steps of Spec at one clock reading, with the        *)
(*                 scheduling the executor and the main thread provide     *)
(*                 (for termination)                                       *)
(*   SpecCache     threads in get_cached_or_fetch and in the cache section *)
(*                 of process_single_keyword_optimized, with the clock     *)
(*   SpecCleanup   cleanup_cache applied to the table earlier runs left    *)
(*                                                                         *)
(* Strings that the code inspects character by character (URLs) are        *)
(* sequences of one-character strings; keywords are compared whole and are *)
(* TLA+ strings.  Python dicts are records; a key the dict does not have   *)
(* is a field the record does not have (see Get).                          *)
(***************************************************************************)
EXTENDS Integers, Sequences, FiniteSets, TLC

VARIABLES
    \* ---- SpecOverlap: a pure function and its arguments
    fn_in,                  \* the arguments
    fn_out,                 \* the value returned (NotRun before the call)
    \* ---- SpecPipeline: one research_keyword(keyword) run
    pc,                     \* position in research_keyword
    keyword,                \* the seed keyword
    original_top_10_urls,   \* step 1
    all_keywords,           \* step 2 accumulator
    sorted_keywords,        \* step 2 after dedup and sort
    supporting_keywords,    \* step 3 accumulator
    idx,                    \* loop index of the step-2 / step-3 loop (0-based)
    results,                \* the dict research_keyword returned
    calls,                  \* external calls issued so far, in order
    fetched,                \* step 3: what get_keyword_serp_urls returned, per scanned candidate
    \* ---- Spec: one process_keywords_parallel(keywords, max_keywords) run
    keywords,               \* the keywords argument (cut to max_keywords on entry)
    max_keywords,           \* the max_keywords argument (0: None)
    max_workers,            \* size of the ThreadPoolExecutor
    task,                   \* per item: position of its future / worker
    research,               \* per item: what research_keyword gave (or the cached value)
    future,                 \* per item: the future's outcome once done
    batch_results,          \* the coordinator's results list
    yielded,                \* item indexes in the order as_completed yielded them
    cache,                  \* the cache table: key -> [value, expires_at]
    now,                    \* the wall clock, in ticks
    metrics,                \* self.metrics
    main_pc,                \* position of process_keywords_parallel
    \* ---- SpecCache: worker threads at the cache and the rate limiter
    worker,                 \* per thread: its call, its position and what it saw
    rate_limit_lock,        \* the thread inside `with self.rate_limit_lock` (0: none)
    last_request_time,      \* self.last_request_time
    stamps                  \* the values written to last_request_time, in order

fnVars    == <<fn_in, fn_out>>
pipeVars  == <<pc, keyword, original_top_10_urls, all_keywords, sorted_keywords,
               supporting_keywords, idx, results, calls, fetched>>
batchVars == <<keywords, max_keywords, max_workers, task, research, future, batch_results,
               yielded, cache, now, metrics, main_pc>>
coordVars == <<keywords, max_keywords, max_workers, task, research, future, batch_results,
               yielded, main_pc>>
workerVars == <<worker, rate_limit_lock, last_request_time, stamps>>
vars      == <<fnVars, pipeVars, batchVars, workerVars>>

\* no value yet: the call has not returned
NotRun == [tag |-> "pending"]

\* Python's None where the code expects a number (volumes and prices are >= 0)
None == -1

(***************************************************************************)
(* Python helpers                                                          *)
(***************************************************************************)

\* dict.get(key, default)
Get(d, k, default) == IF k \in DOMAIN d THEN d[k] ELSE default

\* x or 0
OrZero(x) == IF x = None THEN 0 ELSE x

\* seq[:n]
Take(s, n) == SubSeq(s, 1, IF Len(s) < n THEN Len(s) ELSE n)

Range(s) == { s[i] : i \in DOMAIN s }

SeqsUpTo(S, n) == UNION { [1..k -> S] : k \in 0..n }

(***************************************************************************)
(* URL strings                                                             *)
(***************************************************************************)

LowerChar(c) ==
    CASE c = "A" -> "a"
      [] c = "B" -> "b"
      [] c = "C" -> "c"
      [] OTHER   -> c

\* str.lower()
Lower(s) == [i \in DOMAIN s |-> LowerChar(s[i])]

\* str.rstrip(c)
RECURSIVE RStrip(_, _)
RStrip(s, c) ==
    IF Len(s) > 0 /\ s[Len(s)] = c THEN RStrip(SubSeq(s, 1, Len(s) - 1), c) ELSE s

\* c in s
Contains(s, c) == \E i \in DOMAIN s : s[i] = c

\* s.split(c)[0]: the text before the first c (all of s when c is absent)
SplitFirst(s, c) ==
    IF Contains(s, c)
    THEN SubSeq(s, 1, (CHOOSE i \in DOMAIN s :
                          s[i] = c /\ \A j \in 1..(i - 1) : s[j] # c) - 1)
    ELSE s

StripQuery(s)    == IF Contains(s, "?") THEN SplitFirst(s, "?") ELSE s
StripFragment(s) == IF Contains(s, "#") THEN SplitFirst(s, "#") ELSE s

\* KeywordResearcher.normalize_url
normalize_url(url) ==
    IF url = <<>> THEN url
    ELSE Lower(StripFragment(StripQuery(RStrip(url, "/"))))

(***************************************************************************)
(* Overlap scorer.  The percentage is the exact fraction num/den; 0.0 is   *)
(* 0/1.  For at most 10 seed URLs the float the code computes compares to  *)
(* 40 exactly as the fraction does.                                        *)
(***************************************************************************)

Percent(n, d) == [num |-> n, den |-> d]
Zero == Percent(0, 1)

NormalizedSet(urls) == { normalize_url(urls[i]) : i \in DOMAIN urls }

\* total = len(normalized_urls1): the mutant below divides by the candidate set
OverlapTotalCandidate(n1, n2) == Cardinality(n2)
OverlapTotal(n1, n2) == Cardinality(n1)

\* overlap = len(intersection of the two sets): the mutant below counts the
\* entries of the seed list, repeated URLs included
OverlapCountList(urls1, urls2) ==
    Cardinality({ i \in DOMAIN urls1 : normalize_url(urls1[i]) \in NormalizedSet(urls2) })
OverlapCount(urls1, urls2) ==
    Cardinality(NormalizedSet(urls1) \cap NormalizedSet(urls2))

\* KeywordResearcher.calculate_url_overlap
calculate_url_overlap(urls1, urls2) ==
    IF urls1 = <<>> \/ urls2 = <<>> THEN Zero
    ELSE LET overlap == OverlapCount(urls1, urls2)
             total   == OverlapTotal(NormalizedSet(urls1), NormalizedSet(urls2))
         IN  IF total > 0 THEN Percent(overlap * 100, total) ELSE Zero

\* a >= n for a percentage a and an integer n
PercentGE(a, n) == a.num >= n * a.den

\* round(a, 1), in tenths of a percent (no tie occurs for den <= 10)
Round1(a) == (2 * 10 * a.num + a.den) \div (2 * a.den)


(***************************************************************************)
(* The external service.  A response is what one HTTP exchange gave:       *)
(*   transport_error  requests raised (timeout, connection)                *)
(*   http_error       raise_for_status() raised (after the retries)        *)
(*   app_error        status_code # 20000, or no tasks                     *)
(*   null_result      status_code = 20000 but tasks[0]['result'] is null   *)
(*   ok               a result with items                                  *)
(***************************************************************************)

\* what a call gave: a value, None, or an exception that leaves the method
Value(v)   == [tag |-> "value", value |-> v]
Nothing    == [tag |-> "none"]
Raise(e)   == [tag |-> "raise", error |-> e]

OrganicItem(u) == [type |-> "organic", url |-> u]
PaidItem(u)    == [type |-> "paid", url |-> u]

Items5 == << OrganicItem(<<"a">>), OrganicItem(<<"B">>), OrganicItem(<<"c", "/">>),
             OrganicItem(<<"d">>), OrganicItem(<<"e">>) >>
Items2 == << OrganicItem(<<"A", "/">>), OrganicItem(<<"b", "?", "x">>) >>
Items1 == << PaidItem(<<"a">>), OrganicItem(<<"d", "#", "f">>) >>

SerpResponses ==
    { [kind |-> k, items |-> <<>>] :
          k \in {"transport_error", "http_error", "app_error", "null_result"} }
    \cup { [kind |-> "ok", items |-> i] : i \in {<<>>, Items1, Items2, Items5} }

\* KeywordResearcher.get_serp_data: the result dict, None, or an exception
\* that is no RequestException and so leaves the method
get_serp_data(resp) ==
    CASE resp.kind \in {"transport_error", "http_error"} -> Nothing
      [] resp.kind = "app_error"   -> Nothing
      [] resp.kind = "null_result" -> Raise("TypeError")
      [] OTHER                     -> Value([items |-> resp.items])

IsOrganic(item) == item.type = "organic"

SerpDepth == 10

\* KeywordResearcher.get_keyword_serp_urls
get_keyword_serp_urls(resp) ==
    LET serp_data == get_serp_data(resp) IN
    IF serp_data.tag = "raise" THEN serp_data
    ELSE IF serp_data.tag = "none" THEN Value(<<>>)
    ELSE LET organic == Take(SelectSeq(serp_data.value.items, IsOrganic), SerpDepth)
         IN  Value([i \in DOMAIN organic |-> organic[i].url])

(***************************************************************************)
(* Ranked keywords.  A raw item is what the service lists for a URL:       *)
(* keyword_data.keyword, ranked_serp_element.serp_item.rank_group and      *)
(* keyword_info's search_volume, cpc and competition (None when null).     *)
(***************************************************************************)

RawItem(k, p, v, c) ==
    [keyword |-> k, rank_group |-> p, search_volume |-> v, cpc |-> c, competition |-> 0]

\* str.strip() on the keyword texts that occur
Strip(text) ==
    CASE text = " k1" -> "k1"
      [] text = " "   -> ""
      [] OTHER        -> text

RankedA == << RawItem(" k1", 3, 100, 1), RawItem("k2", 1, 50, 5), RawItem("k6", 11, 900, 9) >>
RankedB == << RawItem("k1", 2, 100, 1), RawItem("k3", 10, None, 2), RawItem(" ", 1, 800, 8),
             RawItem("k4", 5, 50, None), RawItem("k5", 1, 0, 0), RawItem("k7", 0, 700, 7) >>

RankedResponses ==
    { [kind |-> k, items |-> <<>>] :
          k \in {"transport_error", "http_error", "app_error", "task_error"} }
    \cup { [kind |-> "ok", items |-> i] : i \in {<<>>, RankedA, RankedB} }

\* the filter of get_ranked_keywords: top 10 positions and a non-empty text;
\* the mutant tests the upper end of the range only
InTop10Upper(item) == item.rank_group <= 10
InTop10(item) == 1 <= item.rank_group /\ item.rank_group <= 10 /\ Strip(item.keyword) # ""

KeywordRecord(item) ==
    [keyword       |-> Strip(item.keyword),
     position      |-> item.rank_group,
     search_volume |-> item.search_volume,
     cpc           |-> item.cpc,
     competition   |-> item.competition]

\* KeywordResearcher.get_ranked_keywords
get_ranked_keywords(resp) ==
    IF resp.kind # "ok" THEN <<>>
    ELSE LET kept == SelectSeq(resp.items, InTop10)
         IN  [i \in DOMAIN kept |-> KeywordRecord(kept[i])]

(***************************************************************************)
(* Step 2 of research_keyword: deduplicate, then sort                      *)
(***************************************************************************)

\* index of the record with this keyword text in a list without duplicates, or 0
IndexOf(uniq, text) ==
    IF \E i \in DOMAIN uniq : uniq[i].keyword = text
    THEN CHOOSE i \in DOMAIN uniq : uniq[i].keyword = text
    ELSE 0

\* one pass of the dedup loop: a dict keeps a key at the place of its first
\* insertion; the mutant also replaces a record by a later one at the same position
DedupStepLastTie(uniq, kw) ==
    LET at == IndexOf(uniq, kw.keyword) IN
    IF at = 0 THEN Append(uniq, kw)
    ELSE IF kw.position <= uniq[at].position THEN [uniq EXCEPT ![at] = kw]
    ELSE uniq
DedupStep(uniq, kw) ==
    LET at == IndexOf(uniq, kw.keyword) IN
    IF at = 0 THEN Append(uniq, kw)
    ELSE IF kw.position < uniq[at].position THEN [uniq EXCEPT ![at] = kw]
    ELSE uniq

RECURSIVE DedupFrom(_, _)
DedupFrom(uniq, rest) ==
    IF rest = <<>> THEN uniq
    ELSE DedupFrom(DedupStep(uniq, Head(rest)), Tail(rest))

\* unique_keywords.values()
Deduplicate(kws) == DedupFrom(<<>>, kws)

\* the sort key (-(search_volume or 0), -(cpc or 0)): a sorts strictly before b;
\* the mutant sorts by volume only
SortsBeforeByVolume(a, b) == OrZero(a.search_volume) > OrZero(b.search_volume)
SortsBefore(a, b) ==
    \/ OrZero(a.search_volume) > OrZero(b.search_volume)
    \/ /\ OrZero(a.search_volume) = OrZero(b.search_volume)
       /\ OrZero(a.cpc) > OrZero(b.cpc)

\* x placed behind every element it does not sort strictly before
InsertSorted(s, x) ==
    LET before == { i \in DOMAIN s : SortsBefore(x, s[i]) }
        at     == IF before = {} THEN Len(s) + 1
                  ELSE CHOOSE i \in before : \A j \in before : i <= j
    IN  SubSeq(s, 1, at - 1) \o <<x>> \o SubSeq(s, at, Len(s))

RECURSIVE SortFrom(_, _)
SortFrom(done, rest) ==
    IF rest = <<>> THEN done
    ELSE SortFrom(InsertSorted(done, Head(rest)), Tail(rest))

\* sorted(..., key=...): Python's sort is stable
SortKeywords(kws) == SortFrom(<<>>, kws)

(***************************************************************************)
(* research_keyword: the dicts it returns                                  *)
(***************************************************************************)

TopUrls          == 3
MaxSupporting    == 4
OverlapThreshold == 40
ReportCap        == 20

\* the return of lines 367-371
NoSeedDataResult(kw) ==
    [error         |-> "Failed to get top 10 URLs for the keyword",
     input_keyword |-> kw]

\* the return of lines 406-421
NoCandidatesResult(kw, urls) ==
    [input_keyword                   |-> kw,
     original_top_10_urls            |-> urls,
     keywords_from_top_3_urls        |-> <<>>,
     supporting_keywords             |-> <<>>,
     total_supporting_keywords_found |-> 0,
     processing_time                 |-> "elapsed",
     timestamp                       |-> "now",
     error                           |-> "No ranking keywords found from DataForSEO Labs API"]

\* the results dict of lines 459-467
FullResult(kw, urls, sorted, supporting) ==
    [input_keyword                   |-> kw,
     original_top_10_urls            |-> urls,
     keywords_from_top_3_urls        |-> Take(sorted, ReportCap),
     supporting_keywords             |-> supporting,
     total_supporting_keywords_found |-> Len(supporting),
     processing_time                 |-> "elapsed",
     timestamp                       |-> "now"]

\* the acceptance test of line 441; the mutant accepts only above 40%
AcceptsAbove(overlap_percentage) == overlap_percentage.num > OverlapThreshold * overlap_percentage.den
Accepts(overlap_percentage) == PercentGE(overlap_percentage, OverlapThreshold)

\* the dict appended at lines 442-449; the mutant swaps volume and price
SupportingRecordSwapped(kw_data, overlap_percentage, keyword_urls) ==
    [keyword            |-> kw_data.keyword,
     overlap_percentage |-> Round1(overlap_percentage),
     search_volume      |-> kw_data.cpc,
     cpc                |-> kw_data.search_volume,
     position           |-> kw_data.position,
     top_10_urls        |-> Take(keyword_urls, 10)]
SupportingRecord(kw_data, overlap_percentage, keyword_urls) ==
    [keyword            |-> kw_data.keyword,
     overlap_percentage |-> Round1(overlap_percentage),
     search_volume      |-> kw_data.search_volume,
     cpc                |-> kw_data.cpc,
     position           |-> kw_data.position,
     top_10_urls        |-> Take(keyword_urls, 10)]

\* one pass of the step-3 loop body on what the SERP call returned
ScanCandidate(supporting, seed_urls, kw_data, keyword_urls) ==
    IF keyword_urls # <<>> /\ Accepts(calculate_url_overlap(seed_urls, keyword_urls))
    THEN Append(supporting,
                SupportingRecord(kw_data, calculate_url_overlap(seed_urls, keyword_urls),
                                 keyword_urls))
    ELSE supporting

\* the step-3 loop is over: the list is exhausted or the break of line 428 is due;
\* one mutant breaks only once more than 4 are accepted, the other never breaks
ScanOverLate(next_idx, supporting, sorted) ==
    next_idx >= Len(sorted) \/ Len(supporting) > MaxSupporting
ScanOverAtEnd(next_idx, supporting, sorted) ==
    next_idx >= Len(sorted)
ScanOver(next_idx, supporting, sorted) ==
    next_idx >= Len(sorted) \/ Len(supporting) >= MaxSupporting

SerpCall(kw)    == [op |-> "serp", arg |-> kw]
RankedCall(url) == [op |-> "ranked", arg |-> url]

(***************************************************************************)
(* research_keyword, one action per external call.  The code between two   *)
(* calls (dedup, sort, the early returns, building the dict) belongs to    *)
(* the action of the call before it.  time.sleep(1) changes no state.      *)
(***************************************************************************)

SeedKeywords == {"seed", "k1"}

PipeIdle ==
    /\ pc = "idle"
    /\ keyword = ""
    /\ original_top_10_urls = <<>>
    /\ all_keywords = <<>>
    /\ sorted_keywords = <<>>
    /\ supporting_keywords = <<>>
    /\ idx = 0
    /\ results = NotRun
    /\ calls = <<>>
    /\ fetched = <<>>

PipeInit ==
    /\ pc = "step1"
    /\ keyword \in SeedKeywords
    /\ original_top_10_urls = <<>>
    /\ all_keywords = <<>>
    /\ sorted_keywords = <<>>
    /\ supporting_keywords = <<>>
    /\ idx = 0
    /\ results = NotRun
    /\ calls = <<>>
    /\ fetched = <<>>

\* lines 363-373: the seed SERP call and the NoSeedData return; the mutant
\* goes on to step 2 with no seed URLs
SeedMissingNever(urls) == FALSE
SeedMissing(urls) == urls = <<>>

Step1(resp) ==
    /\ pc = "step1"
    /\ calls' = Append(calls, SerpCall(keyword))
    /\ LET r == get_keyword_serp_urls(resp) IN
       IF r.tag = "raise"
       THEN /\ pc' = "raised"
            /\ UNCHANGED <<original_top_10_urls, results>>
       ELSE IF SeedMissing(r.value)
       THEN /\ pc' = "done"
            /\ results' = NoSeedDataResult(keyword)
            /\ UNCHANGED original_top_10_urls
       ELSE /\ pc' = "step2"
            /\ original_top_10_urls' = r.value
            /\ UNCHANGED results
    /\ UNCHANGED <<keyword, all_keywords, sorted_keywords, supporting_keywords, idx, fetched>>
    /\ UNCHANGED <<fnVars, batchVars, workerVars>>

\* the NoCandidates test of line 406; the mutant goes on to step 3
NoCandidatesNever(sorted) == FALSE
NoCandidates(sorted) == Len(sorted) = 0

\* line 379: original_top_10_urls[:3]; the mutant harvests every seed URL
HarvestUrlsAll(urls) == urls
HarvestUrls(urls) == Take(urls, TopUrls)

\* lines 379-421: one ranked-keyword call; after the last one, dedup, sort and
\* the NoCandidates return
Step2(resp) ==
    /\ pc = "step2"
    /\ idx < Len(HarvestUrls(original_top_10_urls))
    /\ calls' = Append(calls, RankedCall(original_top_10_urls[idx + 1]))
    /\ LET collected == all_keywords \o get_ranked_keywords(resp)
           sorted    == SortKeywords(Deduplicate(collected))
       IN  /\ all_keywords' = collected
           /\ IF idx + 1 < Len(HarvestUrls(original_top_10_urls))
              THEN /\ idx' = idx + 1
                   /\ UNCHANGED <<pc, sorted_keywords, results>>
              ELSE /\ idx' = 0
                   /\ sorted_keywords' = sorted
                   /\ IF NoCandidates(sorted)
                      THEN /\ pc' = "done"
                           /\ results' = NoCandidatesResult(keyword, original_top_10_urls)
                      ELSE /\ pc' = "step3"
                           /\ UNCHANGED results
    /\ UNCHANGED <<keyword, original_top_10_urls, supporting_keywords, fetched>>
    /\ UNCHANGED <<fnVars, batchVars, workerVars>>

\* lines 427-472: one candidate SERP call of the step-3 loop; once the loop is
\* over, the results dict
Step3(resp) ==
    /\ pc = "step3"
    /\ idx < Len(sorted_keywords)
    /\ calls' = Append(calls, SerpCall(sorted_keywords[idx + 1].keyword))
    /\ LET r == get_keyword_serp_urls(resp) IN
       IF r.tag = "raise"
       THEN /\ pc' = "raised"
            /\ UNCHANGED <<supporting_keywords, idx, results, fetched>>
       ELSE LET supporting == ScanCandidate(supporting_keywords, original_top_10_urls,
                                            sorted_keywords[idx + 1], r.value)
            IN  /\ supporting_keywords' = supporting
                /\ fetched' = Append(fetched, r.value)
                /\ idx' = idx + 1
                /\ IF ScanOver(idx + 1, supporting, sorted_keywords)
                   THEN /\ pc' = "done"
                        /\ results' = FullResult(keyword, original_top_10_urls,
                                                 sorted_keywords, supporting)
                   ELSE UNCHANGED <<pc, results>>
    /\ UNCHANGED <<keyword, original_top_10_urls, all_keywords, sorted_keywords>>
    /\ UNCHANGED <<fnVars, batchVars, workerVars>>

(***************************************************************************)
(* calculate_url_overlap on its own                                        *)
(***************************************************************************)

MaxUrls == 3

OverlapUrls == { <<"a">>, <<"A", "/">>, <<"b", "?", "a">>, <<"c">> }

FnIdle == fn_in = [urls1 |-> <<>>, urls2 |-> <<>>] /\ fn_out = Zero

OverlapInit ==
    /\ fn_in \in [urls1 : SeqsUpTo(OverlapUrls, MaxUrls), urls2 : SeqsUpTo(OverlapUrls, MaxUrls)]
    /\ fn_out = NotRun

ApplyOverlap ==
    /\ fn_out = NotRun
    /\ fn_out' = calculate_url_overlap(fn_in.urls1, fn_in.urls2)
    /\ UNCHANGED <<fn_in, pipeVars, batchVars, workerVars>>

(***************************************************************************)
(* normalize_url on its own: fn_in.url is the argument, fn_out the list of *)
(* the values obtained by applying normalize_url again and again           *)
(***************************************************************************)

MaxLen == 3

UrlChars == {"a", "A", "/", "?", "#"}

NormalizeInit ==
    /\ fn_in \in [url : SeqsUpTo(UrlChars, MaxLen)]
    /\ fn_out = <<>>

\* normalize_url applied to the argument, then to its own output
ApplyNormalize ==
    /\ "url" \in DOMAIN fn_in
    /\ Len(fn_out) < 2
    /\ fn_out' = Append(fn_out, normalize_url(IF Len(fn_out) = 0 THEN fn_in.url
                                               ELSE fn_out[Len(fn_out)]))
    /\ UNCHANGED <<fn_in, pipeVars, batchVars, workerVars>>

(***************************************************************************)
(* The dedup and the sort of step 2 on their own: fn_in.harvested is       *)
(* all_keywords, fn_out the list of what was computed so far: first        *)
(* unique_keywords.values(), then sorted_keywords                          *)
(***************************************************************************)

MaxHarvest == 3

HarvestRecord(k, p, v, c) == KeywordRecord(RawItem(k, p, v, c))

\* records as get_ranked_keywords returns them: texts that repeat at the same
\* and at different positions, volumes and prices that tie, null ones
HarvestRecords ==
    { HarvestRecord("x", p, vc[1], vc[2]) : p \in {1, 2}, vc \in {<<10, 1>>, <<10, 2>>} }
    \cup { HarvestRecord("y", 1, vc[1], vc[2]) :
              vc \in {<<10, 2>>, <<10, 1>>, <<None, None>>, <<None, 3>>} }
    \cup { HarvestRecord("z", 3, vc[1], vc[2]) : vc \in {<<5, 3>>, <<0, 0>>, <<10, None>>} }

RankInit ==
    /\ fn_in \in [harvested : SeqsUpTo(HarvestRecords, MaxHarvest)]
    /\ fn_out = <<>>

\* lines 386-394: the dedup loop
ApplyDedup ==
    /\ "harvested" \in DOMAIN fn_in
    /\ Len(fn_out) = 0
    /\ fn_out' = << Deduplicate(fn_in.harvested) >>
    /\ UNCHANGED <<fn_in, pipeVars, batchVars, workerVars>>

\* lines 399-402: sorted(unique_keywords.values(), key=...)
ApplySort ==
    /\ "harvested" \in DOMAIN fn_in
    /\ Len(fn_out) = 1
    /\ fn_out' = Append(fn_out, SortKeywords(fn_out[1]))
    /\ UNCHANGED <<fn_in, pipeVars, batchVars, workerVars>>

(***************************************************************************)
(* The cache table of keyword_research_cache.db: key -> [value, expires_at]*)
(***************************************************************************)

Username == "user"

\* the f-string of get_cache_key; md5 is taken to be injective, so the key is
\* identified with the text that is hashed
KeyText(kw, operation, username) == kw \o "_" \o operation \o "_" \o username

\* OptimizedBatchKeywordResearcher.get_cache_key
get_cache_key(kw, operation) == KeyText(kw, operation, Username)

\* get_cache_key on its own: two requests, each of a keyword, an operation name
\* and the username of the researcher that builds the key
KeyKeywords   == {"a", "a_b"}
KeyOperations == {"c", "b_c", "full_research"}
KeyUsernames  == {"u", "c_u"}

KeyRequests == [keyword : KeyKeywords, operation : KeyOperations, username : KeyUsernames]

KeysInit ==
    /\ fn_in \in [first : KeyRequests, second : KeyRequests]
    /\ fn_out = NotRun

ApplyKeys ==
    /\ "first" \in DOMAIN fn_in
    /\ fn_out = NotRun
    /\ fn_out' = [first  |-> KeyText(fn_in.first.keyword, fn_in.first.operation,
                                     fn_in.first.username),
                  second |-> KeyText(fn_in.second.keyword, fn_in.second.operation,
                                     fn_in.second.username)]
    /\ UNCHANGED <<fn_in, pipeVars, batchVars, workerVars>>

\* json.dumps / json.loads of a dict of texts, numbers, None and lists
json_dumps(data) == [json |-> data]
\* the mutant decodes every text to the same dict
json_loads_constant(text) == [items |-> "other"]
json_loads(text) == text.json

\* cache_ttl_hours, a parameter of the constructor, in ticks of the clock
CacheTtl == 1

Put(table, k, v) == [x \in DOMAIN table \cup {k} |-> IF x = k THEN v ELSE table[x]]

\* the SELECT of get_from_cache: the row of this key that has not expired; the
\* mutant still serves a row at the instant it expires
LiveRowAtExpiry(table, cache_key, time) ==
    cache_key \in DOMAIN table /\ table[cache_key].expires_at >= time
LiveRow(table, cache_key, time) ==
    cache_key \in DOMAIN table /\ table[cache_key].expires_at > time

\* OptimizedBatchKeywordResearcher.get_from_cache: the value read, or Nothing
\* (no live row, or the read raised and was logged); the mutant lets the
\* exception of the read through
get_from_cache_raising(table, cache_key, time, read_ok) ==
    IF ~read_ok THEN Raise("sqlite3.OperationalError")
    ELSE IF LiveRow(table, cache_key, time)
    THEN Value(json_loads(table[cache_key].value))
    ELSE Nothing
get_from_cache(table, cache_key, time, read_ok) ==
    IF read_ok /\ LiveRow(table, cache_key, time)
    THEN Value(json_loads(table[cache_key].value))
    ELSE Nothing

\* OptimizedBatchKeywordResearcher.save_to_cache: the table after INSERT OR
\* REPLACE (unchanged when the write raised and was logged)
save_to_cache(table, cache_key, data, time, write_ok) ==
    IF write_ok
    THEN Put(table, cache_key, [value |-> json_dumps(data), expires_at |-> time + CacheTtl])
    ELSE table

(***************************************************************************)
(* process_single_keyword_optimized: the rows it returns                   *)
(***************************************************************************)

\* None in a text column
NoneText == "None"

\* lines 238-247: the supporting_keyword_<j> columns
SupportingColumns(supporting) ==
    [j \in DOMAIN supporting |->
        [keyword |-> Get(supporting[j], "keyword", ""),
         overlap |-> OrZero(Get(supporting[j], "overlap_percentage", None)),
         volume  |-> OrZero(Get(supporting[j], "search_volume", None)),
         cpc     |-> OrZero(Get(supporting[j], "cpc", None))]]

\* line 232: research_successful of a row built from a research result
SuccessFlag(research_results) == TRUE

\* line 266: research_successful of the except branch; the mutant reports success
FailureFlagTrue(error) == TRUE
FailureFlag(error) == FALSE

\* lines 199, 226 and 260: the row_number of a row; the mutant numbers every row 0
RowNumberZero(kw_data) == 0
RowNumber(kw_data) == kw_data.row_number

\* lines 225-255: the result row of a research result
ResultRow(kw_data, research_results) ==
    [row_number                     |-> RowNumber(kw_data),
     seed_keyword                   |-> kw_data.keyword,
     processing_time_seconds        |-> 0,
     original_top_10_urls_count     |-> Len(Get(research_results, "original_top_10_urls", <<>>)),
     keywords_from_top_3_urls_count |-> Len(Get(research_results, "keywords_from_top_3_urls", <<>>)),
     supporting_keywords_found      |-> Get(research_results, "total_supporting_keywords_found", 0),
     research_successful            |-> SuccessFlag(research_results),
     error_message                  |-> NoneText,
     supporting_columns             |-> SupportingColumns(Get(research_results, "supporting_keywords", <<>>)),
     original_keyword               |-> kw_data.keyword]

\* lines 257-275: the row of the except branch
FailureRow(kw_data, error) ==
    [row_number                     |-> RowNumber(kw_data),
     seed_keyword                   |-> kw_data.keyword,
     processing_time_seconds        |-> 0,
     original_top_10_urls_count     |-> 0,
     keywords_from_top_3_urls_count |-> 0,
     supporting_keywords_found      |-> 0,
     research_successful            |-> FailureFlag(error),
     error_message                  |-> error,
     original_keyword               |-> kw_data.keyword]

\* lines 315-324: the error_result of the collector
ErrorResult(kw_data, error) ==
    [row_number                     |-> kw_data.row_number,
     seed_keyword                   |-> kw_data.keyword,
     processing_time_seconds        |-> 0,
     original_top_10_urls_count     |-> 0,
     keywords_from_top_3_urls_count |-> 0,
     supporting_keywords_found      |-> 0,
     research_successful            |-> FALSE,
     error_message                  |-> error]

(***************************************************************************)
(* What research_keyword can give a worker: an exception that left it, or  *)
(* one of its three returns, built as research_keyword builds them.        *)
(***************************************************************************)

SampleUrls == get_keyword_serp_urls([kind |-> "ok", items |-> Items2]).value
SampleSorted ==
    SortKeywords(Deduplicate(get_ranked_keywords([kind |-> "ok", items |-> RankedA])))
SampleSupporting == ScanCandidate(<<>>, SampleUrls, SampleSorted[1], SampleUrls)

ResearchOutcomes(kw) ==
    { Raise("TypeError"),
      Value(NoSeedDataResult(kw)),
      Value(NoCandidatesResult(kw, SampleUrls)),
      Value(FullResult(kw, SampleUrls, SampleSorted, SampleSupporting)) }

(***************************************************************************)
(* Step 3 of research_keyword on its own, entered after a step 2 whose     *)
(* first URL ranks for up to MaxCandidates keywords.  Each candidate SERP  *)
(* is either the seed's own SERP or empty.                                 *)
(***************************************************************************)

MaxCandidates == 21

\* what the service lists for a URL that ranks for n keywords
LongItems(n) ==
    [i \in 1..n |-> RawItem("c" \o ToString(i), 1 + (i % 10), 1000 - i, 1)]

ScanResponses ==
    { [kind |-> "transport_error", items |-> <<>>], [kind |-> "ok", items |-> Items2] }

\* the state of research_keyword("seed") at line 423
ScanInit ==
    /\ pc = "step3"
    /\ keyword = "seed"
    /\ original_top_10_urls = SampleUrls
    /\ \E n \in 1..MaxCandidates :
          all_keywords = get_ranked_keywords([kind |-> "ok", items |-> LongItems(n)])
    \* the texts of LongItems are distinct and its volumes fall, so the dedup
    \* and the sort of step 2 give the list back as it is
    /\ sorted_keywords = all_keywords
    /\ supporting_keywords = <<>>
    /\ idx = 0
    /\ results = NotRun
    /\ calls = << SerpCall(keyword) >>
                  \o [i \in DOMAIN HarvestUrls(SampleUrls) |-> RankedCall(SampleUrls[i])]
    /\ fetched = <<>>

(***************************************************************************)
(* process_keywords_parallel.  The items are what read_keywords_from_csv   *)
(* gives (rows numbered from 1); has_original_row is FALSE for an item a   *)
(* caller built without the original_row key.                              *)
(***************************************************************************)

MaxKeywords == 2
MaxWorkers  == 2
MaxTime     == 1

BatchKeywords == {"k1", "k2"}

Item(n, kw, has) == [row_number |-> n, keyword |-> kw, has_original_row |-> has]

InputLists ==
    UNION { { [i \in 1..k |-> Item(i, kws[i], has[i])] :
                kws \in [1..k -> BatchKeywords], has \in [1..k -> BOOLEAN] } :
            k \in 1..MaxKeywords }

BatchIdle ==
    /\ keywords = <<>>
    /\ max_keywords = 0
    /\ max_workers = 0
    /\ task = <<>>
    /\ research = <<>>
    /\ future = <<>>
    /\ batch_results = <<>>
    /\ yielded = <<>>
    /\ cache = <<>>
    /\ now = 0
    /\ metrics = [cache_hits |-> 0, api_calls |-> 0]
    /\ main_pc = "idle"

WorkerIdle ==
    /\ worker = <<>>
    /\ rate_limit_lock = 0
    /\ last_request_time = 0
    /\ stamps = <<>>

BatchInit ==
    /\ keywords \in InputLists
    /\ max_keywords \in {0, 1}           \* None, or a cut to the first item
    /\ max_workers \in 1..MaxWorkers
    /\ task = <<>>
    /\ research = <<>>
    /\ future = <<>>
    /\ batch_results = <<>>
    /\ yielded = <<>>
    /\ cache = <<>>
    /\ now = 0
    /\ metrics = [cache_hits |-> 0, api_calls |-> 0]
    /\ main_pc = "start"

\* the items that hold a worker of the pool; with the mutant a worker is
\* never given back
RunningOrDone == { i \in DOMAIN task : task[i] \in {"lookup", "research", "done"} }
Running == { i \in DOMAIN task : task[i] \in {"lookup", "research"} }

\* lines 279-295: the max_keywords cut and the submission of every item
Submit ==
    /\ main_pc = "start"
    /\ LET submitted == IF max_keywords # 0 THEN Take(keywords, max_keywords) ELSE keywords
       IN  /\ keywords' = submitted
           /\ task' = [i \in DOMAIN submitted |-> "queued"]
           /\ research' = [i \in DOMAIN submitted |-> NotRun]
           /\ future' = [i \in DOMAIN submitted |-> NotRun]
    /\ main_pc' = "collecting"
    /\ UNCHANGED <<max_keywords, max_workers, batch_results, yielded, cache, now, metrics>>
    /\ UNCHANGED <<fnVars, pipeVars, workerVars>>

\* a free worker takes the next item of the executor's queue; lines 198-200
\* read the item outside the try, so a missing key ends the future at once
Start(i) ==
    /\ main_pc = "collecting"
    /\ task[i] = "queued"
    /\ \A j \in 1..(i - 1) : task[j] # "queued"
    /\ Cardinality(Running) < max_workers
    /\ IF keywords[i].has_original_row
       THEN /\ task' = [task EXCEPT ![i] = "lookup"]
            /\ UNCHANGED future
       ELSE /\ task' = [task EXCEPT ![i] = "done"]
            /\ future' = [future EXCEPT ![i] = Raise("KeyError")]
    /\ UNCHANGED <<keywords, max_keywords, max_workers, research, batch_results, yielded,
                   cache, now, metrics, main_pc>>
    /\ UNCHANGED <<fnVars, pipeVars, workerVars>>

\* lines 205-212 and, on a hit, 224-255: the cache lookup
Lookup(i, read_ok) ==
    /\ task[i] = "lookup"
    /\ LET cached_result == get_from_cache(cache, get_cache_key(keywords[i].keyword, "full_research"),
                                           now, read_ok)
       IN  IF cached_result.tag = "value"
           THEN /\ metrics' = [metrics EXCEPT !.cache_hits = @ + 1]
                /\ research' = [research EXCEPT ![i] = cached_result]
                /\ future' = [future EXCEPT ![i] = Value(ResultRow(keywords[i], cached_result.value))]
                /\ task' = [task EXCEPT ![i] = "done"]
           ELSE /\ task' = [task EXCEPT ![i] = "research"]
                /\ UNCHANGED <<metrics, research, future>>
    /\ UNCHANGED <<keywords, max_keywords, max_workers, batch_results, yielded, cache, now, main_pc>>
    /\ UNCHANGED <<fnVars, pipeVars, workerVars>>

\* lines 213-255 and 257-275: research_keyword ends; its result is cached and
\* turned into a row, its exception into a failure row
Research(i, outcome, write_ok) ==
    /\ task[i] = "research"
    /\ research' = [research EXCEPT ![i] = outcome]
    /\ task' = [task EXCEPT ![i] = "done"]
    /\ IF outcome.tag = "raise"
       THEN /\ future' = [future EXCEPT ![i] = Value(FailureRow(keywords[i], outcome.error))]
            /\ UNCHANGED cache
       ELSE /\ cache' = save_to_cache(cache, get_cache_key(keywords[i].keyword, "full_research"),
                                      outcome.value, now, write_ok)
            /\ future' = [future EXCEPT ![i] = Value(ResultRow(keywords[i], outcome.value))]
    /\ UNCHANGED <<keywords, max_keywords, max_workers, batch_results, yielded, now, metrics, main_pc>>
    /\ UNCHANGED <<fnVars, pipeVars, workerVars>>

\* lines 301-325: the row of the future is appended, or the error_result of
\* its exception; the mutant appends nothing for an exception
AppendOutcomeDropErrors(rows, kw_data, fut) ==
    IF fut.tag = "value" THEN Append(rows, fut.value) ELSE rows
AppendOutcome(rows, kw_data, fut) ==
    IF fut.tag = "value" THEN Append(rows, fut.value)
    ELSE Append(rows, ErrorResult(kw_data, fut.error))

\* lines 299-325: as_completed yields a finished future, in any order
Collect(i) ==
    /\ main_pc = "collecting"
    /\ task[i] = "done"
    /\ i \notin Range(yielded)
    /\ yielded' = Append(yielded, i)
    /\ batch_results' = AppendOutcome(batch_results, keywords[i], future[i])
    /\ UNCHANGED <<keywords, max_keywords, max_workers, task, research, future, cache, now,
                   metrics, main_pc>>
    /\ UNCHANGED <<fnVars, pipeVars, workerVars>>

\* lines 327-328: every future was yielded
Return ==
    /\ main_pc = "collecting"
    /\ Range(yielded) = DOMAIN task
    /\ main_pc' = "returned"
    /\ UNCHANGED <<keywords, max_keywords, max_workers, task, research, future, batch_results,
                   yielded, cache, now, metrics>>
    /\ UNCHANGED <<fnVars, pipeVars, workerVars>>

\* the wall clock advances; it is read only against the expires_at of a row,
\* so it is left at 0 until the first row is written
Tick ==
    /\ main_pc = "collecting"
    /\ DOMAIN cache # {}
    /\ now < MaxTime
    /\ now' = now + 1
    /\ UNCHANGED <<keywords, max_keywords, max_workers, task, research, future, batch_results,
                   yielded, cache, metrics, main_pc>>
    /\ UNCHANGED <<fnVars, pipeVars, workerVars>>

(***************************************************************************)
(* Worker threads at the cache and the rate limiter.  A thread runs either *)
(* get_cached_or_fetch(get_cache_key(keyword, "serp"), fetch_func) or the  *)
(* cache section of process_single_keyword_optimized(keyword).  The clock  *)
(* `now` is what time.time() and datetime.now() read, in ticks; __init__   *)
(* sets last_request_time to 0, a time that lies at least one interval     *)
(* before the first reading of the clock.                                  *)
(***************************************************************************)

MaxThreads == 2
MaxClock   == 4
MaxStoreErrors == 1

\* self.min_request_interval (0.1 s), in ticks of the clock
MinRequestInterval == 2

WorkerEntries  == {"get_cached_or_fetch", "process_single_keyword_optimized"}
WorkerKeywords == {"k1"}

\* what research_keyword gives a worker thread: an exception or a dict; the
\* cache section treats every dict alike, so one dict with an error and one
\* full result stand for them
WorkerOutcomes(kw) ==
    { Raise("TypeError"),
      Value(NoSeedDataResult(kw)),
      Value(FullResult(kw, SampleUrls, SampleSorted, SampleSupporting)) }

\* what fetch_func can give get_cached_or_fetch: None, an empty dict, a dict,
\* or an exception
FetchResults ==
    { Nothing, Value(<<>>), Value([items |-> "serp"]), Raise("ConnectionError") }

\* `if result:` for a value a call gave
Truthy(r) == r.tag = "value" /\ DOMAIN r.value # {}

NewWorker(entry, kw) ==
    [entry        |-> entry,
     keyword      |-> kw,
     pc           |-> "lookup",
     looked_at    |-> None,        \* the clock at the SELECT (until the next step)
     present      |-> Nothing,     \* the row of the key in the table at the SELECT (same)
     served       |-> Nothing,     \* the row the SELECT returned
     read_failed  |-> FALSE,       \* the read raised
     loaded       |-> None,        \* `+= 1`: the counter value loaded (until the store)
     current_time |-> None,        \* rate_limit: current_time (inside rate_limit)
     seen_last    |-> None,        \* rate_limit: the last_request_time it compared with
     limited      |-> FALSE,       \* rate_limit was passed
     called_at    |-> None,        \* the clock at the external call
     computed     |-> NotRun,      \* what fetch_func / research_keyword gave
     write_failed |-> FALSE,       \* the write raised
     result       |-> NotRun]      \* what the call returned

\* the kw_data of a thread in process_single_keyword_optimized
WorkerItem(t) == Item(t, worker[t].keyword, TRUE)

\* the cache key a thread works with
WorkerKey(t) ==
    IF worker[t].entry = "get_cached_or_fetch"
    THEN get_cache_key(worker[t].keyword, "serp")
    ELSE get_cache_key(worker[t].keyword, "full_research")

\* where a thread goes after a cache miss: lines 149-150, lines 213-218
AfterMissSingleFlight(t) ==
    IF \E u \in DOMAIN worker \ {t} :
           /\ worker[u].entry = worker[t].entry
           /\ worker[u].keyword = worker[t].keyword
           /\ worker[u].pc \in {"rate_limit", "sleep", "fetch", "count_call", "research"}
    THEN "lookup"
    ELSE IF worker[t].entry = "get_cached_or_fetch" THEN "rate_limit" ELSE "research"
AfterMiss(t) ==
    IF worker[t].entry = "get_cached_or_fetch" THEN "rate_limit" ELSE "research"

CacheInit ==
    /\ worker \in [1..MaxThreads -> { NewWorker(e, kw) : e \in WorkerEntries, kw \in WorkerKeywords }]
    \* threads are interchangeable: those in get_cached_or_fetch come first
    /\ \A i, j \in 1..MaxThreads :
          (i < j /\ worker[j].entry = "get_cached_or_fetch") => worker[i].entry = "get_cached_or_fetch"
    /\ rate_limit_lock = 0
    /\ last_request_time = 0
    /\ stamps = <<>>
    /\ cache = <<>>
    /\ now = MinRequestInterval
    /\ metrics = [cache_hits |-> 0, api_calls |-> 0]
    /\ keywords = <<>>
    /\ max_keywords = 0
    /\ max_workers = 0
    /\ task = <<>>
    /\ research = <<>>
    /\ future = <<>>
    /\ batch_results = <<>>
    /\ yielded = <<>>
    /\ main_pc = "idle"

\* the reads and writes of the store that raised so far
StoreErrors ==
    Cardinality({ t \in DOMAIN worker : worker[t].read_failed })
        + Cardinality({ t \in DOMAIN worker : worker[t].write_failed })

\* a read or write of the store succeeds, or raises (sqlite3 error)
StoreOutcomes == IF StoreErrors < MaxStoreErrors THEN BOOLEAN ELSE {TRUE}

\* an exception that leaves the cache lookup: get_cached_or_fetch lets it
\* through to its caller, process_single_keyword_optimized catches it at lines
\* 257-275
LookupRaised(t, error) ==
    IF worker[t].entry = "get_cached_or_fetch" THEN Raise(error)
    ELSE Value(FailureRow(WorkerItem(t), error))

\* lines 99-110: the SELECT of get_from_cache and, when it gave a row, the load
\* of metrics['cache_hits'] for the `+= 1`; lines 114-116 when the read raised
CacheLookup(t, read_ok) ==
    /\ worker[t].pc = "lookup"
    /\ LET cached_result == get_from_cache(cache, WorkerKey(t), now, read_ok)
           seen == [worker[t] EXCEPT !.looked_at = now, !.read_failed = ~read_ok,
                                     !.present = IF WorkerKey(t) \in DOMAIN cache
                                                 THEN cache[WorkerKey(t)] ELSE Nothing]
       IN  CASE cached_result.tag = "value" ->
                  worker' = [worker EXCEPT ![t] =
                                [seen EXCEPT !.served = cache[WorkerKey(t)],
                                             !.loaded = metrics.cache_hits,
                                             !.pc = "count_hit"]]
             [] cached_result.tag = "raise" ->
                  worker' = [worker EXCEPT ![t] =
                                [seen EXCEPT !.result = LookupRaised(t, cached_result.error),
                                             !.pc = "done"]]
             [] OTHER ->
                  worker' = [worker EXCEPT ![t] = [seen EXCEPT !.pc = AfterMiss(t)]]
    /\ UNCHANGED <<rate_limit_lock, last_request_time, stamps, cache, now, metrics>>
    /\ UNCHANGED <<fnVars, pipeVars, coordVars>>

\* lines 110-112: the store of the `+= 1` and the return of the decoded value;
\* then lines 145-146, or lines 208-210 and 224-255
CountHit(t) ==
    /\ worker[t].pc = "count_hit"
    /\ metrics' = [metrics EXCEPT !.cache_hits = worker[t].loaded + 1]
    /\ LET cached_result == Value(json_loads(worker[t].served.value))
       IN  IF Truthy(cached_result)
           THEN worker' = [worker EXCEPT ![t] =
                    [@ EXCEPT !.pc = "done", !.looked_at = None, !.present = Nothing,
                              !.loaded = None,
                              !.result = IF worker[t].entry = "get_cached_or_fetch"
                                         THEN cached_result
                                         ELSE Value(ResultRow(WorkerItem(t), cached_result.value))]]
           ELSE worker' = [worker EXCEPT ![t] =
                    [@ EXCEPT !.pc = AfterMiss(t), !.looked_at = None, !.present = Nothing,
                              !.loaded = None]]
    /\ UNCHANGED <<rate_limit_lock, last_request_time, stamps, cache, now>>
    /\ UNCHANGED <<fnVars, pipeVars, coordVars>>

\* threading.Lock: the lock can be taken when no thread holds it; the mutant
\* lets every thread in
LockFreeAlways(holder) == TRUE
LockFree(holder) == holder = 0

\* lines 135-138: the lock is taken, the clock is read and compared with
\* last_request_time
RateLimitEnter(t) ==
    /\ worker[t].pc = "rate_limit"
    /\ LockFree(rate_limit_lock)
    /\ rate_limit_lock' = t
    /\ worker' = [worker EXCEPT ![t] =
                     [@ EXCEPT !.current_time = now, !.seen_last = last_request_time,
                               !.looked_at = None, !.present = Nothing, !.pc = "sleep"]]
    /\ UNCHANGED <<last_request_time, stamps, cache, now, metrics>>
    /\ UNCHANGED <<fnVars, pipeVars, coordVars>>

\* line 139: the clock reading at which time.sleep returns at the earliest
WakeTime(w) ==
    LET time_since_last == w.current_time - w.seen_last
    IN  IF time_since_last < MinRequestInterval
        THEN w.current_time + (MinRequestInterval - time_since_last)
        ELSE w.current_time

\* lines 139-140: the sleep is over, last_request_time is set to the clock and
\* the lock is released
RateLimitLeave(t) ==
    /\ worker[t].pc = "sleep"
    /\ now >= WakeTime(worker[t])
    /\ last_request_time' = now
    /\ stamps' = Append(stamps, now)
    /\ rate_limit_lock' = 0
    /\ worker' = [worker EXCEPT ![t] =
                     [@ EXCEPT !.limited = TRUE, !.current_time = None, !.seen_last = None,
                               !.pc = "fetch"]]
    /\ UNCHANGED <<cache, now, metrics>>
    /\ UNCHANGED <<fnVars, pipeVars, coordVars>>

\* lines 153-160: fetch_func is called; a truthy result is saved and the load
\* of metrics['api_calls'] for the `+= 1` is done; any other result is returned
FetchCall(t, fetched_result, write_ok) ==
    /\ worker[t].pc = "fetch"
    /\ LET called == [worker[t] EXCEPT !.called_at = now, !.computed = fetched_result]
       IN  IF Truthy(fetched_result)
           THEN /\ cache' = save_to_cache(cache, WorkerKey(t), fetched_result.value, now, write_ok)
                /\ worker' = [worker EXCEPT ![t] =
                                 [called EXCEPT !.write_failed = ~write_ok,
                                                !.loaded = metrics.api_calls,
                                                !.pc = "count_call"]]
           ELSE /\ worker' = [worker EXCEPT ![t] =
                                 [called EXCEPT !.result = fetched_result, !.pc = "done"]]
                /\ UNCHANGED cache
    /\ UNCHANGED <<rate_limit_lock, last_request_time, stamps, now, metrics>>
    /\ UNCHANGED <<fnVars, pipeVars, coordVars>>

\* lines 158-160: the store of the `+= 1` and the return of the result
CountCall(t) ==
    /\ worker[t].pc = "count_call"
    /\ metrics' = [metrics EXCEPT !.api_calls = worker[t].loaded + 1]
    /\ worker' = [worker EXCEPT ![t] =
                     [@ EXCEPT !.result = worker[t].computed, !.loaded = None, !.pc = "done"]]
    /\ UNCHANGED <<rate_limit_lock, last_request_time, stamps, cache, now>>
    /\ UNCHANGED <<fnVars, pipeVars, coordVars>>

\* lines 213-255 and 257-275: research_keyword runs its external calls and
\* ends; its result is saved and turned into a row, its exception into a
\* failure row
ProcessResearch(t, outcome, write_ok) ==
    /\ worker[t].pc = "research"
    /\ LET called == [worker[t] EXCEPT !.called_at = now, !.computed = outcome,
                                       !.looked_at = None, !.present = Nothing,
                                       !.pc = "done"]
       IN  IF outcome.tag = "raise"
           THEN /\ worker' = [worker EXCEPT ![t] =
                                 [called EXCEPT !.result =
                                      Value(FailureRow(WorkerItem(t), outcome.error))]]
                /\ UNCHANGED cache
           ELSE /\ cache' = save_to_cache(cache, WorkerKey(t), outcome.value, now, write_ok)
                /\ worker' = [worker EXCEPT ![t] =
                                 [called EXCEPT !.write_failed = ~write_ok,
                                                !.result =
                                      Value(ResultRow(WorkerItem(t), outcome.value))]]
    /\ UNCHANGED <<rate_limit_lock, last_request_time, stamps, now, metrics>>
    /\ UNCHANGED <<fnVars, pipeVars, coordVars>>

\* the clock advances while a thread is still at work
ClockTick ==
    /\ \E t \in DOMAIN worker : worker[t].pc # "done"
    /\ now < MaxClock
    /\ now' = now + 1
    /\ UNCHANGED <<worker, rate_limit_lock, last_request_time, stamps, cache, metrics>>
    /\ UNCHANGED <<fnVars, pipeVars, coordVars>>

(***************************************************************************)
(* cleanup_cache on its own, as main calls it before the batch: the table  *)
(* holds the rows earlier runs saved.  fn_in keeps the table and the clock *)
(* at the call, fn_out tells whether the DELETE raised.                    *)
(***************************************************************************)

CleanupKeywords == {"k1", "k2"}

\* the table after earlier runs saved the results of these keywords at these
\* clock readings (None: never saved)
RECURSIVE TableOf(_, _)
TableOf(saved_at, kws) ==
    IF kws = {} THEN <<>>
    ELSE LET kw   == CHOOSE k \in kws : TRUE
             rest == TableOf(saved_at, kws \ {kw})
         IN  IF saved_at[kw] = None THEN rest
             ELSE save_to_cache(rest, get_cache_key(kw, "full_research"),
                                FullResult(kw, SampleUrls, SampleSorted, SampleSupporting),
                                saved_at[kw], TRUE)

\* OptimizedBatchKeywordResearcher.cleanup_cache: the table after the DELETE
\* (unchanged when it raised and was logged)
cleanup_cache(table, time, delete_ok) ==
    IF delete_ok
    THEN LET kept == { cache_key \in DOMAIN table : ~(table[cache_key].expires_at < time) }
         IN  [cache_key \in kept |-> table[cache_key]]
    ELSE table

CleanupInit ==
    /\ \E saved_at \in [CleanupKeywords -> (0..MaxClock) \cup {None}] :
          cache = TableOf(saved_at, CleanupKeywords)
    /\ now \in 0..(MaxClock + CacheTtl + 1)
    \* the clock does not go back: every row was saved at or before now
    /\ \A cache_key \in DOMAIN cache : cache[cache_key].expires_at - CacheTtl <= now
    /\ fn_in = [table |-> cache, time |-> now]
    /\ fn_out = NotRun
    /\ metrics = [cache_hits |-> 0, api_calls |-> 0]
    /\ keywords = <<>>
    /\ max_keywords = 0
    /\ max_workers = 0
    /\ task = <<>>
    /\ research = <<>>
    /\ future = <<>>
    /\ batch_results = <<>>
    /\ yielded = <<>>
    /\ main_pc = "idle"

\* lines 424-434
Cleanup(delete_ok) ==
    /\ "table" \in DOMAIN fn_in
    /\ fn_out = NotRun
    /\ cache' = cleanup_cache(cache, now, delete_ok)
    /\ fn_out' = [raised |-> ~delete_ok]
    /\ UNCHANGED <<fn_in, now, metrics, pipeVars, coordVars, workerVars>>

InitCleanup == CleanupInit /\ PipeIdle /\ WorkerIdle
NextCleanup == \E delete_ok \in BOOLEAN : Cleanup(delete_ok)
SpecCleanup == InitCleanup /\ [][NextCleanup]_vars

InitOverlap == OverlapInit /\ PipeIdle /\ BatchIdle /\ WorkerIdle
NextOverlap == ApplyOverlap
SpecOverlap == InitOverlap /\ [][NextOverlap]_vars

InitNormalize == NormalizeInit /\ PipeIdle /\ BatchIdle /\ WorkerIdle
NextNormalize == ApplyNormalize
SpecNormalize == InitNormalize /\ [][NextNormalize]_vars

InitKeys == KeysInit /\ PipeIdle /\ BatchIdle /\ WorkerIdle
NextKeys == ApplyKeys
SpecKeys == InitKeys /\ [][NextKeys]_vars

InitRank == RankInit /\ PipeIdle /\ BatchIdle /\ WorkerIdle
NextRank ==
    \/ ApplyDedup
    \/ ApplySort
SpecRank == InitRank /\ [][NextRank]_vars

InitScan == ScanInit /\ FnIdle /\ BatchIdle /\ WorkerIdle
NextScan == \E resp \in ScanResponses : Step3(resp)
SpecScan == InitScan /\ [][NextScan]_vars

InitPipeline == PipeInit /\ FnIdle /\ BatchIdle /\ WorkerIdle
NextPipeline ==
    \/ \E resp \in SerpResponses : Step1(resp)
    \/ \E resp \in RankedResponses : Step2(resp)
    \/ \E resp \in SerpResponses : Step3(resp)
SpecPipeline == InitPipeline /\ [][NextPipeline]_vars

Init == BatchInit /\ FnIdle /\ PipeIdle /\ WorkerIdle
Next ==
    \/ Submit
    \/ \E i \in DOMAIN task : Start(i)
    \/ \E i \in DOMAIN task, read_ok \in BOOLEAN : Lookup(i, read_ok)
    \/ \E i \in DOMAIN task, write_ok \in BOOLEAN :
          \E outcome \in ResearchOutcomes(keywords[i].keyword) : Research(i, outcome, write_ok)
    \/ \E i \in DOMAIN task : Collect(i)
    \/ Return
    \/ Tick
Spec == Init /\ [][Next]_vars

\* the steps of item i, for the items a run can have
StartOf(i)    == i \in DOMAIN task /\ Start(i)
LookupOf(i)   == i \in DOMAIN task /\ \E read_ok \in BOOLEAN : Lookup(i, read_ok)
CollectOf(i)  == i \in DOMAIN task /\ Collect(i)
ResearchOf(i) ==
    /\ i \in DOMAIN task
    /\ \E write_ok \in BOOLEAN :
          \E outcome \in WorkerOutcomes(keywords[i].keyword) : Research(i, outcome, write_ok)

\* The steps of one run as far as its progress depends on them: the clock
\* stays at its reading (a lookup that finds its row expired goes on to the
\* research like the lookup whose read failed), and research_keyword gives
\* one outcome of each kind the worker tells apart.
NextLive ==
    \/ Submit
    \/ \E i \in DOMAIN task : Start(i)
    \/ \E i \in DOMAIN task, read_ok \in BOOLEAN : Lookup(i, read_ok)
    \/ \E i \in DOMAIN task, write_ok \in BOOLEAN :
          \E outcome \in WorkerOutcomes(keywords[i].keyword) : Research(i, outcome, write_ok)
    \/ \E i \in DOMAIN task : Collect(i)
    \/ Return

\* The main thread runs, the executor hands a queued item to a free worker, a
\* worker thread does its cache lookup, and as_completed yields a finished
\* future.  Nothing is assumed here about how long research_keyword takes:
\* that is ResearchEnds.
SpecLive ==
    /\ Init
    /\ [][NextLive]_vars
    /\ WF_vars(Submit)
    /\ WF_vars(Return)
    /\ \A i \in 1..MaxKeywords :
          WF_vars(StartOf(i)) /\ WF_vars(LookupOf(i)) /\ WF_vars(CollectOf(i))

\* every external call of the pipeline of item i returns or times out, so
\* research_keyword ends
ResearchEnds(i) == WF_vars(ResearchOf(i))

InitCache == CacheInit /\ FnIdle /\ PipeIdle
NextCache ==
    \/ \E t \in DOMAIN worker, read_ok \in StoreOutcomes : CacheLookup(t, read_ok)
    \/ \E t \in DOMAIN worker : CountHit(t)
    \/ \E t \in DOMAIN worker : RateLimitEnter(t)
    \/ \E t \in DOMAIN worker : RateLimitLeave(t)
    \/ \E t \in DOMAIN worker, write_ok \in StoreOutcomes :
          \E fetched_result \in FetchResults : FetchCall(t, fetched_result, write_ok)
    \/ \E t \in DOMAIN worker : CountCall(t)
    \/ \E t \in DOMAIN worker, write_ok \in StoreOutcomes :
          \E outcome \in WorkerOutcomes(worker[t].keyword) : ProcessResearch(t, outcome, write_ok)
    \/ ClockTick
SpecCache == InitCache /\ [][NextCache]_vars

(***************************************************************************)
(* Properties of research_keyword (SpecPipeline)                           *)
(***************************************************************************)

\* the overlap of a candidate's URLs with the seed URLs reaches 40%, stated on
\* the sets of normalized URLs
ReachesThreshold(seed_urls, urls) ==
    100 * Cardinality(NormalizedSet(seed_urls) \cap NormalizedSet(urls))
        >= 40 * Cardinality(NormalizedSet(seed_urls))

AtMostFourAbove40(list) ==
    /\ Len(list) <= 4
    /\ \A i \in DOMAIN list :
          /\ list[i].overlap_percentage >= 400
          /\ ReachesThreshold(original_top_10_urls, list[i].top_10_urls)

Returned == pc = "done"

\* C5: at every point of a run, and in every result, supporting_keywords has at
\* most 4 entries and each was accepted with an overlap of at least 40.0% with
\* the seed URLs.
C5_SupportingAtMost4AtLeast40 ==
    /\ AtMostFourAbove40(supporting_keywords)
    /\ (Returned /\ "supporting_keywords" \in DOMAIN results)
          => AtMostFourAbove40(results.supporting_keywords)

\* C5 witness: a run returned 4 supporting keywords, one of them at exactly
\* 40.0%, with a candidate left unscanned.
C5_Witness ==
    /\ Returned
    /\ "supporting_keywords" \in DOMAIN results
    /\ Len(results.supporting_keywords) = 4
    /\ Len(fetched) < Len(sorted_keywords)
    /\ \E i \in DOMAIN results.supporting_keywords :
          results.supporting_keywords[i].overlap_percentage = 400

\* the scanned candidates that qualify: a non-empty SERP with at least 40% overlap
Qualifying ==
    { i \in DOMAIN fetched :
        fetched[i] # <<>> /\ ReachesThreshold(original_top_10_urls, fetched[i]) }

FullRun == Returned /\ "error" \notin DOMAIN results

\* C6: in a full result, supporting_keywords lists, in candidate order, exactly
\* the scanned candidates whose SERP is non-empty and overlaps the seed URLs by
\* at least 40%; the scan ran to the fourth such candidate or to the end of the
\* list; total_supporting_keywords_found is the length of the list.
C6_SupportingAreFirstQualifying ==
    FullRun =>
        LET supporting == results.supporting_keywords IN
        /\ Len(supporting) = Cardinality(Qualifying)
        /\ \A k \in DOMAIN supporting :
              \E i \in Qualifying :
                 /\ Cardinality({ j \in Qualifying : j <= i }) = k
                 /\ supporting[k].keyword = sorted_keywords[i].keyword
                 /\ supporting[k].top_10_urls = fetched[i]
        /\ \/ Len(fetched) = Len(sorted_keywords)
           \/ Cardinality(Qualifying) = 4 /\ Len(fetched) \in Qualifying
        /\ results.total_supporting_keywords_found = Len(supporting)

\* C6 witness: a full result in which a candidate without URLs and a candidate
\* below 40% were passed over before a later candidate was accepted.
C6_Witness ==
    /\ FullRun
    /\ \E i, j, k \in DOMAIN fetched :
          /\ i < k /\ j < k
          /\ fetched[i] = <<>>
          /\ fetched[j] # <<>> /\ j \notin Qualifying
          /\ k \in Qualifying
    /\ Len(results.supporting_keywords) >= 1

\* step 1 returned without seed URLs
SeedEmpty == pc \notin {"step1", "raised"} /\ original_top_10_urls = <<>>

\* C7: when the seed SERP is empty the run ends at once with the NoSeedData
\* result, and the seed SERP call is the only call of the run.
C7_NoSeedDataStopsAtOnce ==
    SeedEmpty =>
        /\ Returned
        /\ results = NoSeedDataResult(keyword)
        /\ calls = << SerpCall(keyword) >>

\* C7 witness: a run that ended with NoSeedData.
C7_Witness == SeedEmpty /\ Returned /\ "error" \in DOMAIN results

ResultArtifacts ==
    {"input_keyword", "original_top_10_urls", "keywords_from_top_3_urls", "supporting_keywords"}

\* C8: every result carries input_keyword, original_top_10_urls, the ranked
\* candidate list and supporting_keywords, whichever stage the run stopped at.
C8_EveryResultHasAllArtifacts ==
    Returned => ResultArtifacts \subseteq DOMAIN results

RankedCalls == { i \in DOMAIN calls : calls[i].op = "ranked" }

\* step 2 made its last ranked-keyword call and no keyword survived
CandidatesEmpty ==
    /\ original_top_10_urls # <<>>
    /\ Cardinality(RankedCalls) = Len(Take(original_top_10_urls, TopUrls))
    /\ all_keywords = <<>>

\* C9: when step 2 ends without candidates the run ends with the NoCandidates
\* result, which holds the seed URLs of step 1 and no supporting keyword, and
\* no candidate SERP call is made.
C9_NoCandidatesKeepsSeedUrls ==
    CandidatesEmpty =>
        /\ Returned
        /\ "error" \in DOMAIN results
        /\ results.input_keyword = keyword
        /\ results.original_top_10_urls = original_top_10_urls
        /\ results.keywords_from_top_3_urls = <<>>
        /\ results.supporting_keywords = <<>>
        /\ results.total_supporting_keywords_found = 0
        /\ \A i \in DOMAIN calls : i > 1 => calls[i].op = "ranked"

\* C9 witness: a run with 3 seed URLs or more that ended with NoCandidates.
C9_Witness == CandidatesEmpty /\ Returned /\ Len(original_top_10_urls) > TopUrls

\* the calls that follow the seed SERP call and the ranked-keyword calls: the
\* candidate SERP calls of step 3
CandidateCalls == SubSeq(calls, 2 + Cardinality(RankedCalls), Len(calls))

\* C24: step 3 fetches the candidates one by one in list order, never more
\* fetches than candidates; the loop goes on only while fewer than 4 are
\* accepted and a candidate is left; the fourth acceptance ends the run, so the
\* last fetch is the one of the fourth accepted candidate; a full result has 4
\* supporting keywords or every candidate was fetched.
C24_ScanStopsAtFourOrEnd ==
    /\ Len(CandidateCalls) <= Len(sorted_keywords)
    /\ \A i \in DOMAIN CandidateCalls :
          CandidateCalls[i] = SerpCall(sorted_keywords[i].keyword)
    /\ Len(supporting_keywords) <= MaxSupporting
    /\ Len(supporting_keywords) = MaxSupporting =>
          /\ Returned
          /\ supporting_keywords[MaxSupporting].keyword
                = sorted_keywords[Len(CandidateCalls)].keyword
    /\ pc = "step3" =>
          /\ Len(CandidateCalls) < Len(sorted_keywords)
          /\ Len(supporting_keywords) < MaxSupporting
    /\ FullRun =>
          \/ Len(supporting_keywords) = MaxSupporting
          \/ Len(CandidateCalls) = Len(sorted_keywords)

\* C24 witness: the first 4 candidates were fetched and accepted and the run
\* ended with a candidate that was never fetched.
C24_Witness ==
    /\ FullRun
    /\ Len(supporting_keywords) = MaxSupporting
    /\ Len(CandidateCalls) = MaxSupporting
    /\ Len(sorted_keywords) > Len(CandidateCalls)
    /\ Len(calls) = 1 + Cardinality(RankedCalls) + MaxSupporting

\* C25: the first call of a run is the seed SERP call; the ranked-keyword calls
\* follow it, one per seed URL in rank order, for the first min(3, n) seed URLs
\* only; a candidate SERP call is made only after the last of them, and no
\* ranked-keyword call follows a candidate SERP call.
C25_StagesInOrder ==
    LET ranked == Cardinality(RankedCalls)
        top    == IF Len(original_top_10_urls) < 3 THEN Len(original_top_10_urls) ELSE 3
    IN  /\ pc = "step1" => calls = <<>>
        /\ calls # <<>> => calls[1] = SerpCall(keyword)
        /\ ranked <= top
        /\ \A i \in 1..ranked : calls[1 + i] = RankedCall(original_top_10_urls[i])
        /\ \A i \in DOMAIN calls : i > 1 + ranked => calls[i].op = "serp"
        /\ pc = "step2" => (Len(calls) = 1 + ranked /\ ranked < top)
        /\ (pc = "step3" \/ CandidateCalls # <<>> \/ FullRun) => ranked = top

\* C25 witness: a run over 5 seed URLs made 3 ranked-keyword calls and then
\* candidate SERP calls, and returned.
C25_Witness ==
    /\ FullRun
    /\ Len(original_top_10_urls) = 5
    /\ Cardinality(RankedCalls) = 3
    /\ Len(CandidateCalls) >= 2

\* a record with a position in [1, 10] and a non-empty keyword text
InRange(kw_data) ==
    /\ 1 <= kw_data.position /\ kw_data.position <= 10
    /\ kw_data.keyword # ""
    /\ kw_data.keyword # " "

\* C26: every harvested record, every candidate and every supporting keyword
\* of a run, in the lists of the run and in its result, has a position in
\* [1, 10] and a non-empty keyword text.
C26_OnlyTop10WithText ==
    /\ \A i \in DOMAIN all_keywords : InRange(all_keywords[i])
    /\ \A i \in DOMAIN sorted_keywords : InRange(sorted_keywords[i])
    /\ \A i \in DOMAIN supporting_keywords : InRange(supporting_keywords[i])
    /\ FullRun =>
          /\ \A i \in DOMAIN results.keywords_from_top_3_urls :
                InRange(results.keywords_from_top_3_urls[i])
          /\ \A i \in DOMAIN results.supporting_keywords :
                InRange(results.supporting_keywords[i])
    /\ \A i \in DOMAIN CandidateCalls : CandidateCalls[i].arg \notin {"", " "}

\* C26 witness: a run harvested a URL whose list held a keyword at rank 10, one
\* at rank 0 and one with a blank text; the keyword at rank 10 is a supporting
\* keyword of the result.
C26_Witness ==
    /\ FullRun
    /\ Len(all_keywords) = Len(get_ranked_keywords([kind |-> "ok", items |-> RankedB]))
    /\ Len(all_keywords) < Len(RankedB)
    /\ \E i \in DOMAIN results.supporting_keywords :
          results.supporting_keywords[i].position = 10

\* C27: whatever the service answers, get_serp_data and get_ranked_keywords
\* return (a result, or nothing): no exception of theirs ends the run.
C27_ClientsNeverRaise ==
    /\ pc # "raised"
    /\ (pc = "done" /\ original_top_10_urls = <<>>) => results = NoSeedDataResult(keyword)

\* the keyword texts of a list of supporting keywords are pairwise distinct
DistinctTexts(list) ==
    \A i, j \in DOMAIN list : i # j => list[i].keyword # list[j].keyword

\* C34: at every point of a run, and in every result, the supporting keywords
\* have pairwise distinct keyword texts and none of them is the seed keyword.
C34_SupportingDistinctNotSeed ==
    /\ DistinctTexts(supporting_keywords)
    /\ \A i \in DOMAIN supporting_keywords : supporting_keywords[i].keyword # keyword
    /\ (Returned /\ "supporting_keywords" \in DOMAIN results) =>
          /\ DistinctTexts(results.supporting_keywords)
          /\ \A i \in DOMAIN results.supporting_keywords :
                results.supporting_keywords[i].keyword # results.input_keyword

(***************************************************************************)
(* Properties of step 3 over a long candidate list (SpecScan)              *)
(***************************************************************************)

\* the supporting keyword carries the volume, the price and the position of
\* this candidate record
SameFigures(supporting, kw_data) ==
    /\ supporting.keyword = kw_data.keyword
    /\ supporting.search_volume = kw_data.search_volume
    /\ supporting.cpc = kw_data.cpc
    /\ supporting.position = kw_data.position

\* C33 as stated: in a full result every supporting keyword is in
\* keywords_from_top_3_urls with the same search_volume, cpc and position.
C33_SupportingAreReported ==
    FullRun =>
        \A i \in DOMAIN results.supporting_keywords :
            \E j \in DOMAIN results.keywords_from_top_3_urls :
                SameFigures(results.supporting_keywords[i], results.keywords_from_top_3_urls[j])

\* C33 amended: in a full result every supporting keyword is a candidate of
\* the sorted list, with the same search_volume, cpc and position; it is in
\* keywords_from_top_3_urls, at its rank, when that rank is at most 20, and
\* is not in it otherwise.
C33_SupportingAreCandidates ==
    FullRun =>
        \A i \in DOMAIN results.supporting_keywords :
            \E j \in DOMAIN sorted_keywords :
                /\ SameFigures(results.supporting_keywords[i], sorted_keywords[j])
                /\ j <= ReportCap =>
                      /\ j \in DOMAIN results.keywords_from_top_3_urls
                      /\ results.keywords_from_top_3_urls[j] = sorted_keywords[j]
                /\ j > ReportCap =>
                      \A k \in DOMAIN results.keywords_from_top_3_urls :
                          results.keywords_from_top_3_urls[k].keyword
                              # results.supporting_keywords[i].keyword

\* C33 witness: a full result over more than 20 candidates whose supporting
\* keywords are the 20th candidate, which is reported, and the 21st, which is
\* not.
C33_Witness ==
    /\ FullRun
    /\ Len(sorted_keywords) > ReportCap
    /\ Len(results.keywords_from_top_3_urls) = ReportCap
    /\ Len(results.supporting_keywords) = 2
    /\ results.supporting_keywords[1].keyword = sorted_keywords[ReportCap].keyword
    /\ results.supporting_keywords[2].keyword = sorted_keywords[ReportCap + 1].keyword

(***************************************************************************)
(* Properties of the dedup and the sort of step 2 (SpecRank)               *)
(***************************************************************************)

Deduplicated == Len(fn_out) >= 1
Sorted       == Len(fn_out) = 2

\* the harvested records with this keyword text, by index in harvest order
SameText(text) == { j \in DOMAIN fn_in.harvested : fn_in.harvested[j].keyword = text }

\* the first harvested record among those with this text that have the lowest
\* position
FirstAtMinimum(text) ==
    CHOOSE j \in SameText(text) :
        \A k \in SameText(text) :
            \/ fn_in.harvested[j].position < fn_in.harvested[k].position
            \/ fn_in.harvested[j].position = fn_in.harvested[k].position /\ j <= k

\* C22: the dedup gives one record per distinct keyword text of the harvest;
\* it is the record with the lowest position among those with that text and,
\* when several share that position, the first of them in harvest order.
C22_DedupKeepsFirstMinimum ==
    Deduplicated =>
        LET unique == fn_out[1] IN
        /\ \A i, j \in DOMAIN unique : i # j => unique[i].keyword # unique[j].keyword
        /\ { unique[i].keyword : i \in DOMAIN unique }
              = { fn_in.harvested[j].keyword : j \in DOMAIN fn_in.harvested }
        /\ \A i \in DOMAIN unique :
              unique[i] = fn_in.harvested[FirstAtMinimum(unique[i].keyword)]

\* C22 witness: three records with the same text, the first at a higher
\* position than the two others, which tie and differ: the second is kept.
C22_Witness ==
    /\ Deduplicated
    /\ Len(fn_in.harvested) = 3
    /\ SameText(fn_in.harvested[1].keyword) = {1, 2, 3}
    /\ fn_in.harvested[1].position > fn_in.harvested[2].position
    /\ fn_in.harvested[2].position = fn_in.harvested[3].position
    /\ fn_in.harvested[2] # fn_in.harvested[3]
    /\ fn_out[1] = << fn_in.harvested[2] >>

\* the sort keys with null taken as 0
VolumeOf(kw_data) == IF kw_data.search_volume = None THEN 0 ELSE kw_data.search_volume
CpcOf(kw_data)    == IF kw_data.cpc = None THEN 0 ELSE kw_data.cpc

\* the texts in the order in which the harvest first shows them
FirstSeen(text) == CHOOSE j \in SameText(text) : \A k \in SameText(text) : j <= k

\* C23: the sorted list is a permutation of the deduplicated records, by
\* search_volume descending, then cpc descending, null taken as 0; records
\* equal in both keys are in first-seen order.  Volumes [10,10,5] with cpcs
\* [1,2,3] give [(10,2),(10,1),(5,3)].
C23_SortedByVolumeThenCpcStable ==
    Sorted =>
        LET unique == fn_out[1]
            sorted == fn_out[2]
        IN  /\ Len(sorted) = Len(unique)
            /\ Range(sorted) = Range(unique)
            /\ \A i, j \in DOMAIN sorted :
                  i < j =>
                     \/ VolumeOf(sorted[i]) > VolumeOf(sorted[j])
                     \/ /\ VolumeOf(sorted[i]) = VolumeOf(sorted[j])
                        /\ CpcOf(sorted[i]) > CpcOf(sorted[j])
                     \/ /\ VolumeOf(sorted[i]) = VolumeOf(sorted[j])
                        /\ CpcOf(sorted[i]) = CpcOf(sorted[j])
                        /\ FirstSeen(sorted[i].keyword) < FirstSeen(sorted[j].keyword)
            /\ fn_in.harvested = << HarvestRecord("x", 1, 10, 1), HarvestRecord("y", 1, 10, 2),
                                    HarvestRecord("z", 3, 5, 3) >>
                  => sorted = << HarvestRecord("y", 1, 10, 2), HarvestRecord("x", 1, 10, 1),
                                 HarvestRecord("z", 3, 5, 3) >>

\* C23 witness: the example, volumes [10,10,5] with cpcs [1,2,3], sorted.
C23_Witness ==
    /\ Sorted
    /\ [i \in DOMAIN fn_in.harvested |->
           <<fn_in.harvested[i].search_volume, fn_in.harvested[i].cpc>>]
          = << <<10, 1>>, <<10, 2>>, <<5, 3>> >>
    /\ [i \in DOMAIN fn_out[2] |-> <<fn_out[2][i].search_volume, fn_out[2][i].cpc>>]
          = << <<10, 2>>, <<10, 1>>, <<5, 3>> >>

(***************************************************************************)
(* Properties of calculate_url_overlap (SpecOverlap)                       *)
(***************************************************************************)

Applied == fn_out # NotRun

\* C10: the overlap is 100 * |N(original) /\ N(candidate)| / |N(original)|: the
\* denominator is the number of distinct normalized seed URLs, not that of the
\* candidate URLs or of the union; with an empty list the overlap is 0.
C10_OverlapDividesBySeedSet ==
    Applied =>
        LET n1 == NormalizedSet(fn_in.urls1)
            n2 == NormalizedSet(fn_in.urls2)
        IN  /\ fn_out.den > 0
            /\ IF fn_in.urls1 = <<>> \/ fn_in.urls2 = <<>>
               THEN fn_out.num = 0
               ELSE fn_out.num * Cardinality(n1) = 100 * Cardinality(n1 \cap n2) * fn_out.den

\* C10 witness: an overlap that is neither 0 nor 100, where the seed set, the
\* candidate set and their union all differ in size.
C10_Witness ==
    /\ Applied
    /\ LET n1 == NormalizedSet(fn_in.urls1)
           n2 == NormalizedSet(fn_in.urls2)
       IN  /\ Cardinality(n1) # Cardinality(n2)
           /\ Cardinality(n1 \cup n2) # Cardinality(n1)
           /\ Cardinality(n1 \cap n2) > 0
           /\ Len(fn_in.urls1) # Cardinality(n1)

\* C11: the overlap lies within [0, 100]; it is 0 when either list is empty;
\* the overlap of a non-empty list with itself is 100.
C11_OverlapRange ==
    Applied =>
        /\ fn_out.den > 0
        /\ 0 <= fn_out.num
        /\ fn_out.num <= 100 * fn_out.den
        /\ (fn_in.urls1 = <<>> \/ fn_in.urls2 = <<>>) => fn_out.num = 0
        /\ (fn_in.urls1 # <<>> /\ fn_in.urls2 = fn_in.urls1) => fn_out.num = 100 * fn_out.den

\* C11 witness: a list with itself, where two of its URLs normalize to the same
\* string.
C11_Witness ==
    /\ Applied
    /\ fn_in.urls1 = fn_in.urls2
    /\ Len(fn_in.urls1) > Cardinality(NormalizedSet(fn_in.urls1))
    /\ Cardinality(NormalizedSet(fn_in.urls1)) > 1
    /\ fn_out.num = 100 * fn_out.den

(***************************************************************************)
(* Properties of normalize_url (SpecNormalize)                             *)
(***************************************************************************)

\* C12: normalize_url is idempotent: applied to its own output it returns that
\* output.
C12_NormalizeIdempotent ==
    Len(fn_out) = 2 => fn_out[2] = fn_out[1]

\* the text before the first "?" or "#" of a URL
BeforeMarks(url) ==
    SubSeq(url, 1, CHOOSE n \in 0..Len(url) :
                      /\ \A i \in 1..n : url[i] \notin {"?", "#"}
                      /\ n < Len(url) => url[n + 1] \in {"?", "#"})

\* C13: the output of normalize_url for a non-empty URL is the canonical form
\* of the URL: the text before its first "?" or "#", without trailing "/",
\* lowercased; so it has no trailing "/", no "?" and no "#".
C13_NormalizedIsCanonical ==
    (Len(fn_out) >= 1 /\ fn_in.url # <<>>) =>
        LET out == fn_out[1] IN
        /\ out = Lower(RStrip(BeforeMarks(fn_in.url), "/"))
        /\ ~(Len(out) > 0 /\ out[Len(out)] = "/")
        /\ ~Contains(out, "?")
        /\ ~Contains(out, "#")
        /\ out = Lower(out)

(***************************************************************************)
(* Properties of get_cache_key (SpecKeys)                                  *)
(***************************************************************************)

\* C18: two different (keyword, operation, username) requests never get the
\* same cache key.
C18_KeysNeverCollide ==
    (Applied /\ fn_in.first # fn_in.second) => fn_out.first # fn_out.second

(***************************************************************************)
(* Properties of the cache and the rate limiter (SpecCache)                *)
(***************************************************************************)

\* the thread was served a row by its cache lookup
Hit(t) == worker[t].served # Nothing

\* thread u wrote this row for the key of thread t: the row holds the encoded
\* value u computed and expires CacheTtl after u's write
WroteRow(u, cache_key, row) ==
    /\ WorkerKey(u) = cache_key
    /\ worker[u].computed.tag = "value"
    /\ ~worker[u].write_failed
    /\ row = [value |-> json_dumps(worker[u].computed.value),
              expires_at |-> worker[u].called_at + CacheTtl]

\* what a thread returns for the data it got from the cache or computed
Returns(t, data) ==
    IF worker[t].entry = "get_cached_or_fetch" THEN Value(data)
    ELSE Value(ResultRow(WorkerItem(t), data))

\* C14: a lookup that finds a live row it can read is a hit; a hit returns the
\* data another call stored under that key, unchanged, without a call of
\* fetch_func or research_keyword and without a pass through rate_limit (so
\* last_request_time is written only by threads that missed); its `+= 1`
\* raises cache_hits to at least 1 and cache_hits never exceeds the hits made.
C14_HitServesStoredData ==
    /\ \A t \in DOMAIN worker :
          LET w == worker[t] IN
          /\ (w.present # Nothing /\ ~w.read_failed /\ w.present.expires_at > w.looked_at)
                => w.served = w.present
          /\ Hit(t) =>
                /\ w.pc \in {"count_hit", "done"}
                /\ w.computed = NotRun
                /\ w.called_at = None
                /\ ~w.limited /\ w.current_time = None
                /\ \E u \in DOMAIN worker \ {t} :
                      /\ WroteRow(u, WorkerKey(t), w.served)
                      /\ w.pc = "done" => w.result = Returns(t, worker[u].computed.value)
                /\ w.pc = "done" => metrics.cache_hits >= 1
    /\ metrics.cache_hits <= Cardinality({ t \in DOMAIN worker : Hit(t) /\ worker[t].pc = "done" })
    /\ Len(stamps) = Cardinality({ t \in DOMAIN worker : worker[t].limited })

\* C14 witness: a thread of process_single_keyword_optimized returned the row
\* of a cached result and cache_hits is 1.
C14_Witness ==
    /\ metrics.cache_hits = 1
    /\ \E t \in DOMAIN worker :
          /\ Hit(t)
          /\ worker[t].pc = "done"
          /\ worker[t].entry = "process_single_keyword_optimized"
          /\ worker[t].result.value.supporting_keywords_found = 1

\* C15: a row is served only at a clock reading before its expires_at, which
\* is the reading at its write plus cache_ttl_hours; a row whose expires_at has
\* been reached is not served although it is still in the table.
C15_NeverServedAtOrAfterExpiry ==
    /\ \A t \in DOMAIN worker :
          LET w == worker[t] IN
          /\ (Hit(t) /\ w.looked_at # None) => w.looked_at < w.served.expires_at
          /\ (w.present # Nothing /\ w.present.expires_at <= w.looked_at)
                => (~Hit(t) /\ w.pc = AfterMiss(t))
    /\ \A cache_key \in DOMAIN cache :
          \E u \in DOMAIN worker : WroteRow(u, cache_key, cache[cache_key])

\* C15 witness: a lookup at the very reading at which the row of its key
\* expires; the row is in the table and the lookup is a miss.
C15_Witness ==
    \E t \in DOMAIN worker :
        /\ worker[t].present # Nothing
        /\ worker[t].present.expires_at = worker[t].looked_at
        /\ WorkerKey(t) \in DOMAIN cache
        /\ ~worker[t].read_failed
        /\ ~Hit(t)

\* C16: every row of the cache holds a non-empty result without an error: a
\* NoSeedData or NoCandidates result is never cached.
C16_OnlySuccessfulResultsCached ==
    \A cache_key \in DOMAIN cache :
        LET data == json_loads(cache[cache_key].value)
        IN  DOMAIN data # {} /\ "error" \notin DOMAIN data

\* what a thread that ran fetch_func or research_keyword returns
ReturnsComputed(t) ==
    LET w == worker[t] IN
    IF w.entry = "get_cached_or_fetch" THEN w.computed
    ELSE IF w.computed.tag = "raise" THEN Value(FailureRow(WorkerItem(t), w.computed.error))
    ELSE Value(ResultRow(WorkerItem(t), w.computed.value))

\* C17: a read of the store that raised is a miss: the thread goes on to
\* fetch_func or research_keyword; a write that raised changes nothing for the
\* caller; in both cases the thread returns what it computed, and the row of a
\* keyword whose pipeline returned is a success row.
C17_StoreErrorsStayInside ==
    \A t \in DOMAIN worker :
        LET w == worker[t] IN
        /\ w.read_failed =>
              /\ ~Hit(t)
              /\ w.pc = "done" => w.computed # NotRun
        /\ w.write_failed =>
              /\ w.computed.tag = "value"
              /\ w.pc \in {"count_call", "done"}
        /\ (w.pc = "done" /\ (w.read_failed \/ w.write_failed)) =>
              /\ w.result = ReturnsComputed(t)
              /\ (w.entry = "process_single_keyword_optimized" /\ w.computed.tag = "value") =>
                    /\ w.result.value.research_successful
                    /\ w.result.value.error_message = NoneText

\* C17 witness: the read of a thread raised while a live row of its key was in
\* the table, and the thread goes on to compute.
C17_Witness ==
    \E t \in DOMAIN worker :
        /\ worker[t].read_failed
        /\ worker[t].present # Nothing
        /\ worker[t].present.expires_at > worker[t].looked_at
        /\ worker[t].pc = AfterMiss(t)

\* the threads of the batch run that made their external calls
Called == { t \in DOMAIN worker : worker[t].called_at # None }

\* C19: two workers of a batch run make their external calls at least
\* min_request_interval apart, and every external call comes after a pass
\* through rate_limit.
C19_ExternalCallsSpaced ==
    /\ \A t, u \in Called :
          (/\ t # u
           /\ worker[t].entry = "process_single_keyword_optimized"
           /\ worker[u].entry = "process_single_keyword_optimized"
           /\ worker[t].called_at <= worker[u].called_at)
              => worker[u].called_at - worker[t].called_at >= MinRequestInterval
    /\ \A t \in Called : worker[t].limited

\* the threads inside the critical section of rate_limit
InRateLimit == { t \in DOMAIN worker : worker[t].pc = "sleep" }

\* C20: the values written to last_request_time by successive passes through
\* rate_limit are at least min_request_interval apart; at most one thread is
\* between the check and the update, it holds the lock, and the timestamp it
\* compared with is still the current one.
C20_RateLimitIsOneCriticalSection ==
    /\ \A i \in 1..(Len(stamps) - 1) : stamps[i + 1] - stamps[i] >= MinRequestInterval
    /\ last_request_time = IF stamps = <<>> THEN 0 ELSE stamps[Len(stamps)]
    /\ Cardinality(InRateLimit) <= 1
    /\ \A t \in InRateLimit :
          /\ rate_limit_lock = t
          /\ worker[t].seen_last = last_request_time
          /\ worker[t].current_time >= worker[t].seen_last

\* C20 witness: after the pass of one thread, another thread is inside
\* rate_limit, sleeping off the rest of an interval that has partly elapsed.
C20_Witness ==
    /\ Len(stamps) = 1
    /\ \E t \in InRateLimit :
          /\ worker[t].current_time > worker[t].seen_last
          /\ now < WakeTime(worker[t])

\* the threads whose `+= 1` on cache_hits has been stored
CountedHits == { t \in DOMAIN worker : Hit(t) /\ worker[t].pc # "count_hit" }

\* the threads of get_cached_or_fetch whose `+= 1` on api_calls has been stored
CountedFetches ==
    { t \in DOMAIN worker :
        /\ worker[t].entry = "get_cached_or_fetch"
        /\ worker[t].pc = "done"
        /\ Truthy(worker[t].computed) }

\* C21: no increment of a counter is lost: after N cache hits and M counted
\* fetches, under every interleaving, cache_hits = N and api_calls = M.
C21_NoLostUpdates ==
    /\ metrics.cache_hits = Cardinality(CountedHits)
    /\ metrics.api_calls = Cardinality(CountedFetches)

\* C28: a row of the cache that has not expired is left as it is by every step
\* of every thread: it stays in the table with its value and its expires_at.
C28_LiveEntryNeverMutated ==
    [][\A cache_key \in DOMAIN cache :
          cache[cache_key].expires_at > now
             => /\ cache_key \in DOMAIN cache'
                /\ cache'[cache_key] = cache[cache_key]]_vars

\* the threads that missed the cache and are in fetch_func or research_keyword
\* (or on their way to it through rate_limit)
InFlight ==
    { t \in DOMAIN worker :
        /\ ~Hit(t)
        /\ worker[t].pc \in {"rate_limit", "sleep", "fetch", "research"} }

\* C29: nothing holds back a thread that missed the cache: whatever the other
\* threads are doing for the same key, it goes on to its own fetch at once
\* (never back to the lookup), and a thread that missed and returned ran
\* fetch_func or research_keyword itself.
C29_MissGoesOnToFetch ==
    \A t \in DOMAIN worker :
        LET w == worker[t] IN
        /\ (w.looked_at # None /\ ~Hit(t)) => w.pc \in {"rate_limit", "research"}
        /\ (w.pc = "done" /\ ~Hit(t)) => w.computed # NotRun

\* C29 witness: two threads asked for the same key, both missed (their reads
\* of the store succeeded) and both are in research_keyword at the same time.
C29_Witness ==
    \E t, u \in InFlight :
        /\ t # u
        /\ WorkerKey(t) = WorkerKey(u)
        /\ worker[t].pc = "research" /\ worker[u].pc = "research"
        /\ ~worker[t].read_failed /\ ~worker[u].read_failed

\* the pipelines of the batch run (research_keyword called from
\* process_single_keyword_optimized) that issued their external calls
PipelinesRun ==
    { t \in Called : worker[t].entry = "process_single_keyword_optimized" }

\* C30: api_calls counts the external calls of the batch run: every pipeline
\* that ran issued at least its seed SERP call, so api_calls is at least the
\* number of pipelines that ran.
C30_ApiCallsCountExternalCalls ==
    metrics.api_calls >= Cardinality(PipelinesRun)

(***************************************************************************)
(* Properties of cleanup_cache (SpecCleanup)                               *)
(***************************************************************************)

\* cleanup_cache ran and its DELETE went through
Cleaned == fn_out # NotRun /\ ~fn_out.raised

\* C31: after cleanup_cache ran at time t, every row left in the table is one
\* a lookup at time t serves, every row with expires_at > t is still there,
\* unchanged, and no row was added.
C31_CleanupRemovesWhatLookupRefuses ==
    Cleaned =>
        /\ \A cache_key \in DOMAIN cache : LiveRow(cache, cache_key, fn_in.time)
        /\ \A cache_key \in DOMAIN fn_in.table :
              fn_in.table[cache_key].expires_at > fn_in.time
                 => /\ cache_key \in DOMAIN cache
                    /\ cache[cache_key] = fn_in.table[cache_key]
        /\ DOMAIN cache \subseteq DOMAIN fn_in.table

(***************************************************************************)
(* Properties of process_keywords_parallel (Spec)                          *)
(***************************************************************************)

BatchReturned == main_pc = "returned"

\* the returned rows that carry the row number and the seed keyword of item i
RowsOf(i) ==
    { j \in DOMAIN batch_results :
        /\ batch_results[j].row_number = keywords[i].row_number
        /\ batch_results[j].seed_keyword = keywords[i].keyword }

\* the outcome of item i was collected
Yielded(i) == i \in DOMAIN task /\ i \in Range(yielded)

\* C32: when the pipeline of every item ends, the run returns with the outcome
\* of every submitted item collected; when the pipeline of one item never ends
\* and the pool has more than one worker, the outcome of every other item is
\* still collected.
C32_BatchTerminates ==
    /\ (\A i \in 1..MaxKeywords : ResearchEnds(i))
          => <>(/\ main_pc = "returned"
                /\ Len(batch_results) = Len(keywords)
                /\ \A i \in DOMAIN keywords : Yielded(i))
    /\ \A slow \in 1..MaxKeywords :
          (\A i \in (1..MaxKeywords) \ {slow} : ResearchEnds(i))
             => <>(/\ main_pc # "start"
                   /\ max_workers > 1 =>
                         \A i \in DOMAIN keywords \ {slow} : Yielded(i))

\* C32 witness: with two workers, the outcome of the second item is collected
\* while the pipeline of the first, which will fail, is still running; then
\* the run returns.
C32_Witness ==
    /\ BatchReturned
    /\ max_workers > 1
    /\ yielded = <<2, 1>>
    /\ research[1].tag = "raise"
    /\ future[2].tag = "value"

\* C1: the batch returns exactly one outcome per submitted item (the whole
\* input, or its first max_keywords items), carrying the item's row_number and
\* seed keyword, whatever the outcome of each item; no outcome is ever
\* collected twice.
C1_OneOutcomePerItem ==
    /\ main_pc \in {"collecting", "returned"} =>
          \A i \in DOMAIN keywords : Cardinality(RowsOf(i)) <= 1
    /\ BatchReturned =>
          /\ Len(batch_results) = Len(keywords)
          /\ \A i \in DOMAIN keywords : Cardinality(RowsOf(i)) = 1

\* C1 witness: a returned batch of two items, one whose pipeline raised and one
\* whose future ended with an exception.
C1_Witness ==
    /\ BatchReturned
    /\ Len(keywords) = 2
    /\ \E i, j \in DOMAIN keywords : research[i].tag = "raise" /\ future[j].tag = "raise"

\* C2 as claimed: the i-th returned outcome belongs to the i-th submitted item.
C2_OrderedBySubmission ==
    BatchReturned =>
        \A i \in DOMAIN batch_results :
            /\ batch_results[i].row_number = keywords[i].row_number
            /\ batch_results[i].seed_keyword = keywords[i].keyword

\* C2 amended: the outcomes are in completion order: the i-th outcome belongs
\* to the i-th future that as_completed yielded and carries the row_number of
\* its item, and the row numbers of the submitted items are distinct, so the
\* submission order can be rebuilt from them.
C2_OrderedByCompletion ==
    /\ Len(batch_results) = Len(yielded)
    /\ \A i \in DOMAIN batch_results :
          /\ batch_results[i].row_number = keywords[yielded[i]].row_number
          /\ batch_results[i].seed_keyword = keywords[yielded[i]].keyword
    /\ \A i, j \in DOMAIN keywords :
          keywords[i].row_number = keywords[j].row_number => i = j

\* C2 witness: a batch returned with the second item's outcome first.
C2_Witness == BatchReturned /\ yielded = <<2, 1>>

\* the outcome of item i in the returned list
OutcomeOf(i) == batch_results[CHOOSE j \in DOMAIN batch_results : j \in RowsOf(i)]

\* C3: an item whose pipeline raised gets a failure row with the error's
\* description; in the returned batch every item has its outcome, and the row
\* of every item whose pipeline returned is the row of its own result.
C3_FailureIsolated ==
    /\ \A i \in DOMAIN research :
          research[i].tag = "raise" =>
             /\ future[i].tag = "value"
             /\ future[i].value.research_successful = FALSE
             /\ future[i].value.error_message = research[i].error
    /\ BatchReturned =>
          \A i \in DOMAIN keywords :
             /\ RowsOf(i) # {}
             /\ research[i].tag = "raise" =>
                   /\ OutcomeOf(i).research_successful = FALSE
                   /\ OutcomeOf(i).error_message = research[i].error
             /\ research[i].tag = "value" =>
                   /\ OutcomeOf(i).error_message = NoneText
                   /\ OutcomeOf(i).supporting_keywords_found =
                         Get(research[i].value, "total_supporting_keywords_found", 0)
                   /\ OutcomeOf(i).original_top_10_urls_count =
                         Len(Get(research[i].value, "original_top_10_urls", <<>>))

\* C3 witness: a returned batch in which the pipeline of the first item raised
\* and the second item, on the same keyword, has a row with supporting keywords.
C3_Witness ==
    /\ BatchReturned
    /\ Len(keywords) = 2
    /\ keywords[1].keyword = keywords[2].keyword
    /\ research[1].tag = "raise"
    /\ research[2].tag = "value"
    /\ OutcomeOf(2).supporting_keywords_found = 1

\* C4: an item whose seed SERP returned nothing (a NoSeedData result) is
\* reported with research_successful = False.
C4_NoSeedDataReportedUnsuccessful ==
    \A i \in DOMAIN research :
        (/\ research[i].tag = "value"
         /\ research[i].value = NoSeedDataResult(keywords[i].keyword)
         /\ future[i].tag = "value")
            => future[i].value.research_successful = FALSE

=============================================================================
